---- MODULE Spec2Model ----
(***************************************************************************)
(* ArLocal (src/app.ts): the application object of a single-node ledger    *)
(* emulator.  The model covers the object's life cycle (constructor,       *)
(* start, startDB, stop and the promise chain stop leaves behind), the     *)
(* router that start() builds, and the ledger operations the routes        *)
(* dispatch to.  The route handlers and the database classes are imported  *)
(* by app.ts from files that are not part of the source tree at hand;      *)
(* they are modelled from the written specification and marked so.         *)
(***************************************************************************)
EXTENDS Integers, Sequences, FiniteSets, TLC

\* ------------------------------------------------------------------ bounds
MaxInstances == 2      \* ArLocal objects constructed one after another
MaxHeight == 2         \* mining stops at this chain height
MaxQty == 1            \* largest :qty of a mine request
MaxMint == 2           \* largest balance a mint request gives / wallet cap
MaxTx == 2             \* rows the transactions table may hold
MaxInFlight == 1       \* mine requests in flight at once
MaxResets == 1         \* reset requests in one run

\* --------------------------------------------------------------- constants
\* app.ts:100  the height of a chain that holds no block yet
NoHeight == -1
\* the configured reward credited per mined block (specification, glossary)
RewardPerBlock == 1

Instances == 1..MaxInstances
Addrs == {"A", "B", "R"}
RewardAddr == "R"
TxIds == {"t1", "t2"}
NoTarget == "none"
\* process.env.DISABLE_ADMIN_ROUTES: a string, or undefined ("unset")
EnvValues == {"true", "false", "unset"}

\* ------------------------------------------------------------------ router
Lit(s) == [t |-> "lit", v |-> s]
Param == [t |-> "param", v |-> ""]
OptParam == [t |-> "opt", v |-> ""]
\* the segment "data.:ext" of '/tx/:txid/data.:ext'
DataExt == [t |-> "dataext", v |-> ""]

R(method, segs, handlers) ==
    [method |-> method, kind |-> "path", segs |-> segs, handlers |-> handlers]
RData(method, handlers) ==
    [method |-> method, kind |-> "dataRouteRegex", segs |-> <<>>, handlers |-> handlers]
RWild(method, handlers) ==
    [method |-> method, kind |-> "wild", segs |-> <<>>, handlers |-> handlers]

\* a route registered only when DISABLE_ADMIN_ROUTES !== 'true'
AdminOnly(env, route) == IF env # "true" THEN <<route>> ELSE <<>>

\* a plausible slip: the guard forgotten on the mint route
WalletAdminRoutesUnguarded(env) ==
       AdminOnly(env, R("POST", <<Lit("wallet")>>, <<"createWalletRoute">>))
    \o AdminOnly(env, R("PATCH", <<Lit("wallet"), Param, Lit("balance")>>, <<"updateBalanceRoute">>))
    \o <<R("GET", <<Lit("mint"), Param, Param>>, <<"addBalanceRoute">>)>>

\* app.ts:165-167
WalletAdminRoutes(env) ==
       AdminOnly(env, R("POST", <<Lit("wallet")>>, <<"createWalletRoute">>))
    \o AdminOnly(env, R("PATCH", <<Lit("wallet"), Param, Lit("balance")>>, <<"updateBalanceRoute">>))
    \o AdminOnly(env, R("GET", <<Lit("mint"), Param, Param>>, <<"addBalanceRoute">>))

\* a plausible slip: the validating middleware left off the POST /tx route
PostTxRouteUnvalidated == R("POST", <<Lit("tx")>>, <<"txPostRoute">>)

\* app.ts:157
PostTxRoute == R("POST", <<Lit("tx")>>, <<"txValidateMiddleware", "txPostRoute">>)

\* app.ts:129-183: the routes start() registers, in registration order
RouteTable(env) ==
       AdminOnly(env, R("GET", <<Lit("logs")>>, <<"logsRoute">>))
    \o <<R("GET", <<>>, <<"statusRoute">>),
         R("GET", <<Lit("info")>>, <<"statusRoute">>),
         R("GET", <<Lit("peers")>>, <<"peersRoute">>)>>
    \o AdminOnly(env, R("GET", <<Lit("reset")>>, <<"resetRoute">>))
    \o AdminOnly(env, R("GET", <<Lit("mine"), OptParam>>, <<"mineRoute">>))
    \o AdminOnly(env, R("GET", <<Lit("mineWithFails"), OptParam>>, <<"mineWithFailsRoute">>))
    \o <<R("GET", <<Lit("tx_anchor")>>, <<"txAnchorRoute">>),
         R("GET", <<Lit("price"), Param, OptParam>>, <<"priceRoute">>),
         R("GET", <<Lit("tx"), Lit("pending")>>, <<"txPendingRoute">>),
         R("GET", <<Lit("tx"), Param, Lit("offset")>>, <<"txOffsetRoute">>),
         R("GET", <<Lit("tx"), Param, Lit("status")>>, <<"txStatusRoute">>),
         R("GET", <<Lit("tx"), Param, Lit("data")>>, <<"txRawDataRoute">>),
         R("GET", <<Lit("tx"), Param, DataExt>>, <<"txDataRoute">>),
         R("GET", <<Lit("tx"), Param, Param>>, <<"txFieldRoute">>),
         R("GET", <<Lit("tx"), Param, Param>>, <<"txFileRoute">>),
         R("GET", <<Lit("tx"), Param>>, <<"txRoute">>),
         R("GET", <<Lit("raw"), Param>>, <<"txRawDataRoute">>)>>
    \o AdminOnly(env, R("DELETE", <<Lit("tx"), Param>>, <<"deleteTxRoute">>))
    \o <<PostTxRoute,
         R("POST", <<Lit("chunk")>>, <<"postChunkRoute">>),
         R("GET", <<Lit("chunk"), Param>>, <<"getChunkOffsetRoute">>),
         R("GET", <<Lit("block"), Lit("hash"), Param>>, <<"blocksRoute">>),
         R("GET", <<Lit("block"), Lit("height"), Param>>, <<"blocksRouteViaHeight">>)>>
    \o WalletAdminRoutes(env)
    \o <<R("GET", <<Lit("wallet"), Param, Lit("balance")>>, <<"getBalanceRoute">>),
         R("GET", <<Lit("wallet"), Param, Lit("last_tx")>>, <<"getLastWalletTxRoute">>),
         RData("HEAD", <<"dataHeadRoute">>),
         RData("GET", <<"dataRoute">>),
         RWild("GET", <<"subDataRoute">>),
         R("GET", <<Param>>, <<"otherRoute">>)>>

\* ---------------------------------------------------------------- requests
Methods == {"GET", "HEAD", "POST", "DELETE", "PATCH"}
\* path segments of the requests the model sends; "ID43" stands for a
\* 43-character transaction id, "data.html" for data.<ext>
Paths ==
    {<<>>, <<"info">>, <<"peers">>, <<"logs">>, <<"reset">>, <<"mine">>,
     <<"mine", "1">>, <<"mineWithFails">>, <<"mineWithFails", "1">>,
     <<"tx_anchor">>, <<"price", "1">>, <<"price", "1", "A">>,
     <<"tx">>, <<"tx", "pending">>, <<"tx", "t1">>, <<"tx", "t1", "offset">>,
     <<"tx", "t1", "status">>, <<"tx", "t1", "data">>,
     <<"tx", "t1", "data.html">>, <<"tx", "t1", "owner">>, <<"raw", "t1">>,
     <<"chunk">>, <<"chunk", "0">>, <<"block", "hash", "b">>,
     <<"block", "height", "0">>, <<"wallet">>, <<"wallet", "A", "balance">>,
     <<"wallet", "A", "last_tx">>, <<"mint", "A", "1">>, <<"ID43">>,
     <<"ID43", "index.html">>, <<"other">>, <<"other", "deep", "path", "x">>}
Requests == [method : Methods, path : Paths]
Req(method, path) == [method |-> method, path |-> path]

\* path-to-regexp, segment by segment: a literal matches itself, :p one
\* segment, :p? one segment or none, data.:ext a segment "data.<ext>"
RECURSIVE MatchSegs(_, _)
MatchSegs(segs, path) ==
    IF segs = <<>> THEN path = <<>>
    ELSE LET s == Head(segs) IN
         CASE s.t = "lit" ->
                  path # <<>> /\ Head(path) = s.v /\ MatchSegs(Tail(segs), Tail(path))
           [] s.t = "param" ->
                  path # <<>> /\ MatchSegs(Tail(segs), Tail(path))
           [] s.t = "dataext" ->
                  path # <<>> /\ Head(path) = "data.html"
                  /\ MatchSegs(Tail(segs), Tail(path))
           [] OTHER ->
                  \/ MatchSegs(Tail(segs), path)
                  \/ path # <<>> /\ MatchSegs(Tail(segs), Tail(path))

\* dataRouteRegex (routes/data): a 43-character id, alone or followed by a path
DataRouteRegex(path) == path # <<>> /\ Head(path) = "ID43"

\* koa-router: router.get registers the route for HEAD as well
MethodMatches(route, method) ==
    \/ route.method = method
    \/ route.method = "GET" /\ method = "HEAD"

RouteMatches(route, req) ==
    /\ MethodMatches(route, req.method)
    /\ CASE route.kind = "path" -> MatchSegs(route.segs, req.path)
         [] route.kind = "dataRouteRegex" -> DataRouteRegex(req.path)
         [] OTHER -> TRUE

\* the layers of the router that match a request, in registration order
Matched(rs, req) == SelectSeq(rs, LAMBDA r : RouteMatches(r, req))

\* the first layer that matches, from layer i on (0: none)
RECURSIVE FirstMatch(_, _, _)
FirstMatch(rs, req, i) ==
    IF i > Len(rs) THEN 0
    ELSE IF RouteMatches(rs[i], req) THEN i
    ELSE FirstMatch(rs, req, i + 1)

\* the handler chain the router runs: the first matched layer's stack
\* (a later layer runs only if the handlers before it call next())
Chain(rs, req) ==
    LET i == FirstMatch(rs, req, 1) IN IF i = 0 THEN <<>> ELSE rs[i].handlers

\* the handler a request is dispatched to ("" when no route matches)
Handler(rs, req) ==
    LET c == Chain(rs, req) IN IF c = <<>> THEN "" ELSE c[Len(c)]

\* every handler that sits in some layer matching the request
Reachable(rs, req) ==
    UNION {{Matched(rs, req)[i].handlers[j] : j \in DOMAIN Matched(rs, req)[i].handlers} :
              i \in DOMAIN Matched(rs, req)}

\* ------------------------------------------------------------------- state
VARIABLES
    live,          \* the ArLocal object constructed last (0: none yet)
    phase,         \* per object: unborn, constructed, failed, started, stopped
    td,            \* per object: where the promise chain of stop() stands
    persist,       \* per object: this.persist
    adminEnv,      \* process.env.DISABLE_ADMIN_ROUTES as start() read it
    routes,        \* this.router of the live object
    network,       \* app.context.network of the live object
    db,            \* <dbPath>/db.sqlite: nofile, notables, ready
    blocks,        \* table blocks, oldest first
    txTable,       \* table transactions, in insertion order
    wallets,       \* table wallets: address -> balance
    genesisCount,  \* how often mineGenesisBlock ran
    resets,        \* how often the chain was reset
    inflight,      \* mine requests accepted and not yet answered
    stage,         \* the open atomic unit of the storage backend, or NoStage
    response,      \* how the call or request answered last ended
    dispatched     \* the request the router dispatched last, and the handler it ran

vars == <<live, phase, td, persist, adminEnv, routes, network, db, blocks,
          txTable, wallets, genesisCount, resets, inflight, stage,
          response, dispatched>>

lifeVars == <<live, phase, td, persist, adminEnv, routes, dispatched>>
storeVars == <<db, blocks, txTable, wallets>>

NoStage == [open |-> FALSE]
\* the previous of the genesis block: null
NoBlockId == 0
\* app.ts:99  the placeholder 'block_id' of network.current; block ids are
\* numbers here, and this is the one that is no block's
PlaceholderId == -1

\* app.ts:88-101
InitialNetwork ==
    [queue_length |-> 0, blocks |-> 0, current |-> PlaceholderId, height |-> NoHeight]

EmptyWallets == [a \in Addrs |-> 0]
NoDispatch == [handler |-> ""]

Init ==
    /\ live = 0
    /\ phase = [i \in Instances |-> "unborn"]
    /\ td = [i \in Instances |-> "idle"]
    /\ persist = [i \in Instances |-> FALSE]
    /\ adminEnv = "unset"
    /\ routes = <<>>
    /\ network = InitialNetwork
    /\ db = "nofile"
    /\ blocks = <<>>
    /\ txTable = <<>>
    /\ wallets = EmptyWallets
    /\ genesisCount = 0
    /\ resets = 0
    /\ inflight = <<>>
    /\ stage = NoStage
    /\ response = ""
    /\ dispatched = NoDispatch

\* -------------------------------------------------------------- life cycle
\* app.ts:76-110  new ArLocal(port, showLogs, dbPath, persist, fails).  The
\* object before it has been stopped and its requests are answered.
Construct(p) ==
    /\ live < MaxInstances
    /\ IF live = 0 THEN TRUE ELSE phase[live] = "stopped"
    /\ inflight = <<>> /\ ~stage.open
    /\ live' = live + 1
    /\ phase' = [phase EXCEPT ![live + 1] = "constructed"]
    /\ persist' = [persist EXCEPT ![live + 1] = p]
    /\ network' = InitialNetwork
    /\ routes' = <<>>
    /\ response' = ""
    /\ dispatched' = NoDispatch
    /\ UNCHANGED <<td, adminEnv, db, blocks, txTable, wallets,
                   genesisCount, resets, inflight, stage>>

\* app.ts:218-239  startDB: what is on disk when it returns.  The old
\* database goes unless persist; up() builds the tables when there is no
\* db.sqlite.
DbAfterStartDB(p) == IF ~p \/ db = "nofile" THEN "ready" ELSE db
KeptByStartDB(p) == p /\ db = "ready"

\* db/block getLastBlock(): the block of greatest height, or none
HasLastBlock(bs) == bs # <<>>
LastBlock(bs) == bs[Len(bs)]

\* a plausible slip: only the block count taken from the block found
NetworkFromLastBlockStale(net, lastBlock) ==
    [net EXCEPT !.blocks = lastBlock.height + 1]

\* a plausible slip: blocks set to the height, not the count
NetworkFromLastBlockOffByOne(net, lastBlock) ==
    [net EXCEPT !.blocks = lastBlock.height,
                !.current = lastBlock.id,
                !.height = lastBlock.height]

\* app.ts:118-120
NetworkFromLastBlock(net, lastBlock) ==
    [net EXCEPT !.blocks = lastBlock.height + 1,
                !.current = lastBlock.id,
                !.height = lastBlock.height]

\* a plausible slip: the id of the genesis block not stored
NetworkFromGenesisNoCurrent(net, blockId) ==
    [net EXCEPT !.blocks = 1, !.height = 0]

\* app.ts:124-126
NetworkFromGenesis(net, blockId) ==
    [net EXCEPT !.blocks = 1, !.current = blockId, !.height = 0]

\* a plausible slip: the genesis block mined whatever the store holds
MinesGenesisAlways(bs) == TRUE

\* app.ts:117,121  the else branch of if (lastBlock)
MinesGenesis(bs) == ~HasLastBlock(bs)

\* A block id is a content hash: it differs from block to block of a chain
\* and from chain to chain.  Chains counts the chains begun so far.
Chains == genesisCount + resets
BlockId(chain, height) == chain * (MaxHeight + 2) + height + 1

\* db/block mineGenesisBlock(): the block of height 0, with no transaction
GenesisBlock(id) == [id |-> id, height |-> 0, previous |-> NoBlockId, txs |-> <<>>]

\* app.ts:112-216  start(), when the store can be read
Start(env) ==
    /\ live > 0 /\ phase[live] = "constructed"
    /\ DbAfterStartDB(persist[live]) = "ready"
    /\ LET kept == KeptByStartDB(persist[live])
           bs == IF kept THEN blocks ELSE <<>>
       IN  /\ db' = "ready"
           /\ txTable' = IF kept THEN txTable ELSE <<>>
           /\ wallets' = IF kept THEN wallets ELSE EmptyWallets
           /\ IF MinesGenesis(bs)
              THEN /\ blocks' = Append(bs, GenesisBlock(BlockId(Chains + 1, 0)))
                   /\ genesisCount' = genesisCount + 1
                   /\ network' = NetworkFromGenesis(network, BlockId(Chains + 1, 0))
              ELSE /\ blocks' = bs
                   /\ UNCHANGED genesisCount
                   /\ network' = NetworkFromLastBlock(network, LastBlock(bs))
    /\ adminEnv' = env
    /\ routes' = RouteTable(env)
    /\ phase' = [phase EXCEPT ![live] = "started"]
    /\ response' = "ok"
    /\ UNCHANGED <<dispatched, live, td, persist, resets, inflight, stage>>

\* app.ts:113-116  start() rejects: db.sqlite is there, so up() is skipped,
\* but its tables are gone and getLastBlock throws.  The GraphQL server is up.
StartThrows ==
    /\ live > 0 /\ phase[live] = "constructed"
    /\ DbAfterStartDB(persist[live]) # "ready"
    /\ phase' = [phase EXCEPT ![live] = "failed"]
    /\ response' = "error"
    /\ UNCHANGED <<dispatched, live, td, persist, adminEnv, routes, network, db, blocks,
                   txTable, wallets, genesisCount, resets, inflight, stage>>

\* app.ts:241-269  stop(): closes the server, calls down() and returns; the
\* promise chain it built runs on afterwards.  With this.apollo undefined
\* (start never ran) the chain ends after down().
Stop ==
    /\ live > 0 /\ phase[live] \in {"constructed", "failed", "started"}
    /\ td' = [td EXCEPT ![live] = IF phase[live] = "constructed" THEN "down_only" ELSE "down"]
    /\ phase' = [phase EXCEPT ![live] = "stopped"]
    /\ response' = "ok"
    /\ UNCHANGED <<dispatched, live, persist, adminEnv, routes, network, db, blocks, txTable,
                   wallets, genesisCount, resets, inflight, stage>>

\* app.ts:252  db/initialize down(connection, persist): drops the tables
\* unless persist.  reaches: whether the connection of object i, opened
\* before a later object replaced the file, still reaches the file at dbPath.
TdDown(i, reaches) ==
    /\ td[i] \in {"down", "down_only"}
    /\ td' = [td EXCEPT ![i] = IF td[i] = "down" THEN "apollo" ELSE "done"]
    /\ ~reaches => ~persist[i] /\ db = "ready" /\ live # i
    /\ IF persist[i] \/ db # "ready" \/ ~reaches
       THEN UNCHANGED <<db, blocks, txTable, wallets>>
       ELSE /\ db' = "notables"
            /\ blocks' = <<>>
            /\ txTable' = <<>>
            /\ wallets' = EmptyWallets
    /\ UNCHANGED response
    /\ UNCHANGED <<dispatched, live, phase, persist, adminEnv, routes, network,
                   genesisCount, resets, inflight, stage>>

\* app.ts:254-255  this.apollo.stop()
TdApollo(i) ==
    /\ td[i] = "apollo"
    /\ td' = [td EXCEPT ![i] = "destroy"]
    /\ UNCHANGED response
    /\ UNCHANGED <<dispatched, live, phase, persist, adminEnv, routes, network, db, blocks,
                   txTable, wallets, genesisCount, resets, inflight, stage>>

\* app.ts:257-258  this.connection.destroy()
TdDestroy(i) ==
    /\ td[i] = "destroy"
    /\ td' = [td EXCEPT ![i] = "rm"]
    /\ UNCHANGED response
    /\ UNCHANGED <<dispatched, live, phase, persist, adminEnv, routes, network, db, blocks,
                   txTable, wallets, genesisCount, resets, inflight, stage>>

\* app.ts:259-263  rmSync(this.dbPath) unless persist
TdRm(i) ==
    /\ td[i] = "rm"
    /\ td' = [td EXCEPT ![i] = "done"]
    /\ IF persist[i]
       THEN UNCHANGED <<db, blocks, txTable, wallets>>
       ELSE /\ db' = "nofile"
            /\ blocks' = <<>>
            /\ txTable' = <<>>
            /\ wallets' = EmptyWallets
    /\ UNCHANGED response
    /\ UNCHANGED <<dispatched, live, phase, persist, adminEnv, routes, network,
                   genesisCount, resets, inflight, stage>>

\* ------------------------------------------------------------------ ledger
\* The handlers below are imported by app.ts (lines 15-46) from routes/ and
\* db/; their bodies follow sections 4.2-4.6 and 5 of the specification.

Owners == {"A"}
Targets == {"B", NoTarget}
Quantities == {1}
Fees == {1}
Txs == [id : TxIds, owner : Owners, target : Targets, quantity : Quantities, fee : Fees]

NumStr(n) == <<"0", "1", "2", "3", "4", "5", "6", "7", "8", "9">>[n + 1]

Serving == live > 0 /\ phase[live] = "started"

\* Transaction Pool listPending(): the rows not yet confirmed, in insertion order
Pending(t) == SelectSeq(t, LAMBDA r : r.status = "pending")
PendingIdx(t) ==
    LET F[i \in 0..Len(t)] ==
            IF i = 0 THEN <<>>
            ELSE IF t[i].status = "pending" THEN Append(F[i - 1], i) ELSE F[i - 1]
    IN  F[Len(t)]
HasTx(t, id) == \E i \in DOMAIN t : t[i].id = id

\* Network Status View: queue_length = listPending().length
QueueLength(t) == Len(Pending(t))

\* a plausible slip: the requests do not wait for the lock
LockedNever == FALSE

\* section 5: the single global write lock, held while an atomic unit is open
Locked == stage.open

\* section 4.4 submit: the checks made before a transaction is stored
Validate(tx) ==
    IF HasTx(txTable, tx.id) THEN "DuplicateTransaction"
    ELSE IF wallets[tx.owner] < tx.quantity + tx.fee THEN "InsufficientFunds"
    ELSE "ok"

\* POST /tx: the chain app.ts:157 registers, txValidateMiddleware then
\* txPostRoute; the storage backend's lock is free
SubmitTx(tx) ==
    /\ Serving /\ db = "ready" /\ ~Locked
    /\ LET chain == Chain(routes, Req("POST", <<"tx">>))
           verdict == IF \E j \in DOMAIN chain : chain[j] = "txValidateMiddleware"
                      THEN Validate(tx) ELSE "ok"
       IN  /\ chain # <<>> /\ chain[Len(chain)] = "txPostRoute"
           /\ IF verdict # "ok"
              THEN /\ response' = verdict
                   /\ UNCHANGED <<txTable, network>>
              ELSE /\ Len(txTable) < MaxTx
                   /\ txTable' = Append(txTable,
                          [id |-> tx.id, owner |-> tx.owner, target |-> tx.target,
                           quantity |-> tx.quantity, fee |-> tx.fee,
                           status |-> "pending", block_id |-> NoBlockId])
                   /\ network' = [network EXCEPT !.queue_length = QueueLength(txTable')]
                   /\ response' = "ok"
    /\ UNCHANGED <<lifeVars, db, blocks, wallets, genesisCount, resets,
                   inflight, stage>>

\* DELETE /tx/:txid: remove(id), pending or confirmed, balances left alone
DeleteTx(id) ==
    /\ Serving /\ db = "ready" /\ ~Locked
    /\ Handler(routes, Req("DELETE", <<"tx", id>>)) = "deleteTxRoute"
    /\ HasTx(txTable, id)
    /\ txTable' = SelectSeq(txTable, LAMBDA r : r.id # id)
    /\ network' = [network EXCEPT !.queue_length = QueueLength(txTable')]
    /\ response' = "ok"
    /\ UNCHANGED <<lifeVars, db, blocks, wallets, genesisCount, resets,
                   inflight, stage>>

\* GET /mint/:address/:balance: credit(address, amount)
Mint(a, n) ==
    /\ Serving /\ db = "ready" /\ ~Locked
    /\ Handler(routes, Req("GET", <<"mint", a, NumStr(n)>>)) = "addBalanceRoute"
    /\ wallets[a] + n <= MaxMint
    /\ wallets' = [wallets EXCEPT ![a] = @ + n]
    /\ response' = "ok"
    /\ UNCHANGED <<lifeVars, network, db, blocks, txTable, genesisCount,
                   resets, inflight, stage>>

\* GET /reset: reset() clears every table and leaves an empty chain
Reset ==
    /\ Serving /\ db = "ready" /\ ~Locked
    /\ Handler(routes, Req("GET", <<"reset">>)) = "resetRoute"
    /\ resets < MaxResets
    /\ blocks' = <<>>
    /\ txTable' = <<>>
    /\ wallets' = EmptyWallets
    /\ network' = InitialNetwork
    /\ resets' = resets + 1
    /\ response' = "ok"
    /\ UNCHANGED <<lifeVars, db, genesisCount, inflight, stage>>

\* blocks the requests in flight still have to mine
RECURSIVE LeftToMine(_)
LeftToMine(reqs) == IF reqs = <<>> THEN 0 ELSE Head(reqs).left + LeftToMine(Tail(reqs))

\* GET /mine/:qty? and GET /mineWithFails/:qty?: the request is accepted;
\* its blocks are mined one atomic unit at a time
MineRequest(kind, q) ==
    /\ Serving
    /\ Handler(routes, Req("GET", <<kind, NumStr(q)>>)) =
           (IF kind = "mine" THEN "mineRoute" ELSE "mineWithFailsRoute")
    /\ Len(inflight) < MaxInFlight
    /\ network.height + LeftToMine(inflight) + q <= MaxHeight
    /\ inflight' = Append(inflight, [kind |-> kind, left |-> q])
    /\ response' = "ok"
    /\ UNCHANGED <<lifeVars, network, storeVars, genesisCount, resets, stage>>

RemoveAt(q, k) == [i \in 1..(Len(q) - 1) |-> IF i < k THEN q[i] ELSE q[i + 1]]

\* the request finds no database: it fails
MineRejected(k) ==
    /\ k \in DOMAIN inflight /\ ~stage.open /\ db # "ready"
    /\ inflight' = RemoveAt(inflight, k)
    /\ response' = "error"
    /\ UNCHANGED <<lifeVars, network, storeVars, genesisCount, resets, stage>>

\* section 4.5 (a): the atomic unit opens, takes the lock and pulls the
\* pending transactions in submission order
MineBegin(k) ==
    /\ k \in DOMAIN inflight /\ ~Locked /\ db = "ready"
    /\ stage' = [open |-> TRUE, req |-> k, kind |-> inflight[k].kind,
                 txs |-> txTable, wallets |-> wallets,
                 todo |-> PendingIdx(txTable), accepted |-> <<>>,
                 id |-> BlockId(Chains, network.height + 1)]
    /\ UNCHANGED response
    /\ UNCHANGED <<lifeVars, network, storeVars, genesisCount, resets, inflight>>

\* section 4.5 (b): debit the owner by quantity + fee, credit the target
\* (if present) by quantity, credit the reward address by fee
Transfer(w, tx) ==
    LET w1 == [w EXCEPT ![tx.owner] = @ - (tx.quantity + tx.fee)]
        w2 == IF tx.target # NoTarget
              THEN [w1 EXCEPT ![tx.target] = @ + tx.quantity] ELSE w1
    IN  [w2 EXCEPT ![RewardAddr] = @ + tx.fee]

\* sections 4.4 and 4.5 (b): the next pending transaction is confirmed into
\* the staged block, or skipped when it would overdraw its owner;
\* mineWithFails may also drop a transaction it could have confirmed
MineApply(drop) ==
    /\ stage.open /\ stage.todo # <<>>
    /\ LET i == Head(stage.todo)
           tx == stage.txs[i]
           overdraw == stage.wallets[tx.owner] < tx.quantity + tx.fee
       IN  /\ drop => stage.kind = "mineWithFails" /\ ~overdraw
           /\ IF overdraw \/ drop
              THEN stage' = [stage EXCEPT !.todo = Tail(@)]
              ELSE stage' = [stage EXCEPT
                       !.todo = Tail(@),
                       !.wallets = Transfer(@, tx),
                       !.txs = [@ EXCEPT ![i] = [@ EXCEPT !.status = "confirmed",
                                                            !.block_id = stage.id]],
                       !.accepted = Append(@, tx.id)]
    /\ UNCHANGED response
    /\ UNCHANGED <<lifeVars, network, storeVars, genesisCount, resets, inflight>>

\* section 4.5 (c)-(e): the block, the transactions and the wallets are
\* written as one unit, the status view is refreshed, the lock is released
MineCommit ==
    /\ stage.open /\ stage.todo = <<>> /\ db = "ready"
    /\ blocks' = Append(blocks, [id |-> stage.id, height |-> network.height + 1,
                                 previous |-> network.current, txs |-> stage.accepted])
    /\ txTable' = stage.txs
    /\ wallets' = [stage.wallets EXCEPT ![RewardAddr] = @ + RewardPerBlock]
    /\ network' = [network EXCEPT !.blocks = @ + 1, !.current = stage.id,
                                  !.height = @ + 1,
                                  !.queue_length = QueueLength(stage.txs)]
    /\ inflight' = IF inflight[stage.req].left = 1
                   THEN RemoveAt(inflight, stage.req)
                   ELSE [inflight EXCEPT ![stage.req].left = @ - 1]
    /\ stage' = NoStage
    /\ response' = "ok"
    /\ UNCHANGED <<lifeVars, db, genesisCount, resets>>

\* sections 4.1 and 7: the atomic unit fails; nothing of it is kept and the
\* request fails
MineAbort ==
    /\ stage.open
    /\ inflight' = RemoveAt(inflight, stage.req)
    /\ stage' = NoStage
    /\ response' = "error"
    /\ UNCHANGED <<lifeVars, network, storeVars, genesisCount, resets>>

\* app.ts:211  router.routes(): the router picks the handler of a request
Dispatch(req) ==
    /\ Serving
    /\ dispatched' = [handler |-> Handler(routes, req), req |-> req]
    /\ UNCHANGED <<live, phase, td, persist, adminEnv, routes, network, storeVars,
                   genesisCount, resets, inflight, stage, response>>

\* -------------------------------------------------------------------- spec
\* a data transaction: no target, nothing moved, no fee
DataTx == [id |-> "t1", owner |-> "A", target |-> NoTarget, quantity |-> 0, fee |-> 0]

\* The life cycle: objects constructed, started and stopped one after
\* another on one database path, with requests in between.
Next ==
    \/ \E p \in BOOLEAN : Construct(p)
    \/ Start("unset")
    \/ StartThrows
    \/ Stop
    \/ \E i \in Instances, reaches \in BOOLEAN : TdDown(i, reaches)
    \/ \E i \in Instances : TdApollo(i)
    \/ \E i \in Instances : TdDestroy(i)
    \/ \E i \in Instances : TdRm(i)
    \/ SubmitTx(DataTx)
    \/ Reset
    \/ MineRequest("mine", 1)
    \/ \E k \in 1..MaxInFlight : MineRejected(k)
    \/ \E k \in 1..MaxInFlight : MineBegin(k)
    \/ MineApply(FALSE)
    \/ MineCommit

Spec == Init /\ [][Next]_vars

\* The ledger: one object, started, and every request that changes the chain.
NextLedger ==
    \/ Construct(FALSE)
    \/ \E env \in {"unset", "true"} : Start(env)
    \/ \E tx \in Txs : SubmitTx(tx)
    \/ \E id \in TxIds : DeleteTx(id)
    \/ \E a \in Owners, n \in 1..MaxMint : Mint(a, n)
    \/ \E kind \in {"mine", "mineWithFails"}, q \in 1..MaxQty : MineRequest(kind, q)
    \/ \E k \in 1..MaxInFlight : MineBegin(k)
    \/ \E drop \in BOOLEAN : MineApply(drop)
    \/ MineCommit
    \/ MineAbort

SpecLedger == Init /\ [][NextLedger]_vars

\* The router: one object after another, started under every value of the
\* switch, and every request sent to it.
NextRouter ==
    \/ Construct(FALSE)
    \/ \E env \in EnvValues : Start(env)
    \/ Stop
    \/ \E req \in Requests : Dispatch(req)

SpecRouter == Init /\ [][NextRouter]_vars

\* ------------------------------------------------------------------ claims
\* the step in which start() of the live object completes
StartStep ==
    /\ live' = live /\ live > 0
    /\ phase[live] = "constructed" /\ phase'[live] = "started"

\* the blocks start() finds once startDB has returned
StoreAtStart == IF KeptByStartDB(persist[live]) THEN blocks ELSE <<>>

\* the step in which a mining step commits a block onto a chain that has one
MinedStep == Len(blocks') = Len(blocks) + 1 /\ Len(blocks) >= 1

RECURSIVE SumOver(_, _)
SumOver(w, as) ==
    IF as = {} THEN 0
    ELSE LET a == CHOOSE x \in as : TRUE IN w[a] + SumOver(w, as \ {a})
TotalBalance(w) == SumOver(w, Addrs)

\* C1: from genesis on, every block mined raises the height by exactly 1,
\* sits at that height, and names as previous the block mined before it
\* (the genesis block for the first), which is also the status view's current.
C1_MineChain ==
    [][MinedStep =>
          /\ network'.height = network.height + 1
          /\ LastBlock(blocks').height = network'.height
          /\ LastBlock(blocks').previous = LastBlock(blocks).id
          /\ network'.current = LastBlock(blocks').id]_vars

\* two blocks mined one after the other on top of the genesis block
C1_Witness ==
    /\ Len(blocks) = 3
    /\ blocks[1].height = 0 /\ blocks[2].previous = blocks[1].id
    /\ blocks[3].previous = blocks[2].id /\ network.height = 2

\* C2: in every state the status view's blocks is height + 1, or 0 while
\* the height is -1.
C2_BlockCount ==
    network.blocks = (IF network.height = NoHeight THEN 0 ELSE network.height + 1)

\* a second object started on a store that already held blocks
C2_Witness ==
    /\ live = 2 /\ phase[2] = "started" /\ persist[2]
    /\ genesisCount = 1 /\ resets = 0 /\ network.blocks >= 2

\* C3: start() mines the genesis block exactly when the store holds no
\* block at that moment; a start() that finds a block adds none; and while
\* every object persists and the chain is never reset, the genesis block is
\* mined at most once.
C3_GenesisOnce ==
    [][StartStep =>
          /\ (genesisCount' = genesisCount + 1) <=> (StoreAtStart = <<>>)
          /\ genesisCount' \in {genesisCount, genesisCount + 1}
          /\ StoreAtStart # <<>> => blocks' = blocks
          /\ StoreAtStart = <<>> => Len(blocks') = 1 /\ blocks'[1].height = 0
          /\ ((\A i \in 1..live : persist[i]) /\ resets = 0) => genesisCount' <= 1]_vars

\* a persisted store restarted: the second start found the chain of the first
C3_Witness ==
    /\ live = 2 /\ phase[2] = "started" /\ persist[1] /\ persist[2]
    /\ td[1] = "done" /\ genesisCount = 1 /\ resets = 0 /\ blocks # <<>>

AdminHandlers ==
    {"logsRoute", "resetRoute", "mineRoute", "mineWithFailsRoute", "deleteTxRoute",
     "createWalletRoute", "updateBalanceRoute", "addBalanceRoute"}
PublicHandlers ==
    {"statusRoute", "txPostRoute", "txRoute", "txPendingRoute", "postChunkRoute",
     "getChunkOffsetRoute", "blocksRoute", "blocksRouteViaHeight", "getBalanceRoute",
     "getLastWalletTxRoute"}

\* C4: started with the switch 'true', the router holds no admin handler in
\* any layer a request matches and never dispatches to one, while every
\* public operation is the handler of some request; started with any other
\* value, every admin and every public operation is the handler of some request.
C4_AdminSwitch ==
    Serving =>
        /\ dispatched.handler \in AdminHandlers => adminEnv # "true"
        /\ dispatched = NoDispatch =>
              IF adminEnv = "true"
              THEN /\ \A req \in Requests : Reachable(routes, req) \cap AdminHandlers = {}
                   /\ \A h \in PublicHandlers : \E req \in Requests : Handler(routes, req) = h
              ELSE \A h \in AdminHandlers \cup PublicHandlers :
                       \E req \in Requests : Handler(routes, req) = h

\* with the switch set, a mine request ends in the catch-all data route
C4_Witness ==
    /\ Serving /\ adminEnv = "true"
    /\ dispatched = [handler |-> "subDataRoute", req |-> Req("GET", <<"mine", "1">>)]

\* C5: while the live object serves, the status view's queue_length is the
\* number of pending transactions in the store.
C5_QueueLength ==
    (Serving /\ db = "ready") => network.queue_length = QueueLength(txTable)

\* the rows of the transactions table that are confirmed point at a block
\* that exists and lists them
NoHalfMinedBlock ==
    \A i \in DOMAIN txTable :
        txTable[i].status = "confirmed" =>
            \E j \in DOMAIN blocks :
                /\ blocks[j].id = txTable[i].block_id
                /\ \E n \in DOMAIN blocks[j].txs : blocks[j].txs[n] = txTable[i].id

C7_Conservation ==
    [][MinedStep => TotalBalance(wallets') - TotalBalance(wallets) = RewardPerBlock]_vars

\* C8: a row enters the transactions table only as a pending transaction
\* whose id the table did not hold and whose owner could pay; an answer of
\* DuplicateTransaction leaves the table, the chain and the status view as
\* they were; no id is ever held twice.
C8_ValidatedSubmission ==
    [][/\ Len(txTable') > Len(txTable) =>
             LET new == txTable'[Len(txTable')] IN
             /\ Len(txTable') = Len(txTable) + 1
             /\ ~HasTx(txTable, new.id)
             /\ new.status = "pending"
             /\ wallets[new.owner] >= new.quantity + new.fee
       /\ (response' = "DuplicateTransaction" /\ response # "DuplicateTransaction") =>
             UNCHANGED <<txTable, blocks, wallets, network>>
       /\ \A i, j \in DOMAIN txTable' : txTable'[i].id = txTable'[j].id => i = j]_vars

\* a submission refused as a duplicate of a transaction already in a block
C8_Witness ==
    /\ response = "DuplicateTransaction" /\ txTable # <<>>
    /\ \A i \in DOMAIN txTable : txTable[i].status = "confirmed"

\* C9: when start() completes, height and current of the status view are
\* those of the last block in storage: the block found there, or the new
\* genesis block of height 0; neither is left at its placeholder.
C9_StartAgrees ==
    [][StartStep =>
          /\ blocks' # <<>>
          /\ network'.height = LastBlock(blocks').height
          /\ network'.current = LastBlock(blocks').id
          /\ network'.height # NoHeight /\ network'.current # PlaceholderId
          /\ StoreAtStart # <<>> => LastBlock(blocks') = LastBlock(StoreAtStart)
          /\ StoreAtStart = <<>> => network'.height = 0]_vars

\* a restart that took over a chain with a mined block on it
C9_Witness ==
    /\ live = 2 /\ phase[2] = "started" /\ response = "ok" /\ inflight = <<>>
    /\ genesisCount = 1 /\ resets = 0 /\ Len(blocks) = 2
    /\ network.height = 1 /\ network.current = blocks[2].id
    /\ dispatched = NoDispatch /\ txTable = <<>>

\* C10: once stop() has returned, no step of its teardown runs.
C10_StopAwaitsTeardown ==
    [][\A i \in Instances : phase[i] = "stopped" => td'[i] = td[i]]_vars

====
